---- MODULE Spec2Model ----
(***************************************************************************)
(* The product catalog service: the request validation contract            *)
(* (CreateProductDto / UpdateProductDto under the global ValidationPipe),  *)
(* the five ProductsService operations, and the products table they act    *)
(* on.  The two service methods that await twice (updateProduct:           *)
(* preload, then save; deleteProduct: getProduct, then remove) are two     *)
(* steps each, so requests interleave at the awaits exactly where the code *)
(* lets them.                                                              *)
(*                                                                         *)
(* The repository calls are modelled by what TypeORM's Repository does:    *)
(*   findOne  - the row of the id, or null;                                *)
(*   preload  - the row of the id with the given properties laid over it,  *)
(*              or undefined when there is no such row;                    *)
(*   save     - of an entity without id: INSERT, the id from the sequence, *)
(*              created_at and updated_at from the database clock;         *)
(*              of an entity with an id: the row is read again, and then   *)
(*              either nothing is written (no column differs), or the      *)
(*              changed columns are written and updated_at set to now, or, *)
(*              the row being gone, the entity is inserted under its id;   *)
(*   remove   - DELETE by id; the entity is returned with its id unset.    *)
(***************************************************************************)
EXTENDS Integers, Sequences, FiniteSets, TLC

VARIABLES
    store,   \* the products table: id -> row, for the ids that have a row
    seq,     \* last value handed out by the id sequence (PrimaryGeneratedColumn)
    clock,   \* the database's current time
    pc,      \* per request slot: "idle", or the await its request is parked at
    ent,     \* per request slot: the entity the parked request holds in memory
    dto,     \* per request slot: the validated body of a parked updateProduct
    served,  \* the number of requests accepted so far (created, or parked at an await)
    issued,  \* history: every id a createProduct has returned so far
    fresh,   \* history: id -> the record createProduct returned, until the id is written
    last     \* the step just taken: the request and the response it produced

vars == <<store, seq, clock, pc, ent, dto, served, issued, fresh, last>>

----------------------------------------------------------------------------
(* Bounds of the model *)

\* the id sequence is capped: at most MaxId products are ever created
MaxId == 2
\* the clock is capped: timestamps range over 0..MaxClock
MaxClock == 1
\* a run accepts at most MaxRequests requests; rejected requests and reads are free
MaxRequests == 3

\* the slots for requests parked at an await
Clients == {"a", "b"}

----------------------------------------------------------------------------
(* Request bodies: a JSON object is a function from property names to      *)
(* values; a value carries its JSON type and, for a string, its text.      *)

Str(s) == [type |-> "string", str |-> s]
Num == [type |-> "number", str |-> ""]

Twice(s) == s \o s

T5 == "Amp A"
T6 == "Amp AB"
T32 == "Speaker B with thirty-two chars."
T33 == "Speaker B with thirty-three chars"
D31 == "A description of 31 characters."
D32 == "A description of 32 characters.."
D1024 == Twice(Twice(Twice(Twice(Twice(D32)))))
D1025 == D1024 \o "."

EmptyBody == [f \in {} |-> Num]
NoBody == EmptyBody
\* null
NoEntity == [none |-> TRUE]

\* the bodies POST /products is tried with: the two valid ones, and one body
\* for each way of failing the pipe
CreateBodies ==
    { [title |-> Str(T6), description |-> Str(D32)],
      [title |-> Str(T32), description |-> Str(D1024)],
      EmptyBody,
      [title |-> Str(T5), description |-> Str(D32)],
      [title |-> Str(T33), description |-> Str(D32)],
      [title |-> Str(T6), description |-> Str(D31)],
      [title |-> Str(T6), description |-> Str(D1025)],
      [title |-> Num, description |-> Str(D32)],
      [title |-> Str(T6), description |-> Str(D32), id |-> Num] }

\* the bodies PUT /products/:id is tried with
UpdateBodies ==
    { [title |-> Str(T6), description |-> Str(D32)],
      [title |-> Str(T32), description |-> Str(D1024)],
      EmptyBody,
      [title |-> Str(T32)],
      [title |-> Str(T5), description |-> Str(D1025)],
      [title |-> Str(T32), description |-> Str(D32), created_at |-> Num] }

\* the ids requests name
Ids == 1 .. MaxId

----------------------------------------------------------------------------
(* Validation: CreateProductDto's decorators, and the global pipe *)

TitleMinLength == 6
TitleMaxLength == 32
DescriptionMinLength == 32
DescriptionMaxLength == 1024

\* the properties CreateProductDto declares
DtoProperties == {"title", "description"}

\* @IsString()
IsString(body, p) == p \in DOMAIN body /\ body[p].type = "string"
\* (mutant) @MinLength taken one too low
MinLengthLoose(body, p, n) == IsString(body, p) /\ Len(body[p].str) >= n - 1
\* @MinLength(n): a missing or non-string value fails it as well
MinLength(body, p, n) == IsString(body, p) /\ Len(body[p].str) >= n
\* @MaxLength(n)
MaxLength(body, p, n) == IsString(body, p) /\ Len(body[p].str) <= n

\* the constraint violations of a body against CreateProductDto
DtoErrors(body) ==
    {e \in { <<"title", "isString">>, <<"title", "minLength">>,
             <<"title", "maxLength">>, <<"description", "isString">>,
             <<"description", "minLength">>, <<"description", "maxLength">> } :
        \/ e = <<"title", "isString">> /\ ~IsString(body, "title")
        \/ e = <<"title", "minLength">> /\ ~MinLength(body, "title", TitleMinLength)
        \/ e = <<"title", "maxLength">> /\ ~MaxLength(body, "title", TitleMaxLength)
        \/ e = <<"description", "isString">> /\ ~IsString(body, "description")
        \/ e = <<"description", "minLength">>
              /\ ~MinLength(body, "description", DescriptionMinLength)
        \/ e = <<"description", "maxLength">>
              /\ ~MaxLength(body, "description", DescriptionMaxLength)}

\* (mutant) an UpdateProductDto that declares the two properties with @IsString()
\* alone, the length decorators lost
UpdateDtoErrorsTypesOnly(body) ==
    {e \in DtoErrors(body) : e[2] = "isString"}

\* UpdateProductDto extends CreateProductDto {}: the same constraints, all required
UpdateDtoErrors(body) == DtoErrors(body)

\* (mutant) forbidNonWhitelisted left out: undeclared properties are stripped, not
\* reported
NonWhitelistedIgnored(body) == {}

\* forbidNonWhitelisted: true -- every undeclared property is an error
NonWhitelistedErrors(body) ==
    {<<p, "whitelistValidation">> : p \in DOMAIN body \ DtoProperties}

\* whitelist: true -- the dto handed to the controller holds declared properties only
Whitelist(body) == [p \in DOMAIN body \cap DtoProperties |-> body[p]]

\* new ValidationPipe({transform, whitelist, forbidNonWhitelisted}) on a @Body()
PipeErrors(errors, body) == errors \cup NonWhitelistedErrors(body)

----------------------------------------------------------------------------
(* The products table *)

Put(s, row) == [i \in DOMAIN s \cup {row.id} |-> IF i = row.id THEN row ELSE s[i]]
Remove(s, id) == [i \in DOMAIN s \ {id} |-> s[i]]

\* (mutant) the id taken as one more than the largest id in the table
NextIdFromTable(s, n) ==
    IF DOMAIN s = {} THEN 1
    ELSE (CHOOSE i \in DOMAIN s : \A j \in DOMAIN s : j <= i) + 1

\* @PrimaryGeneratedColumn(): the next value of the table's sequence
NextId(s, n) == n + 1

\* @CreateDateColumn / @UpdateDateColumn: both default to now() on insert
NewRow(id, d, now) ==
    [id |-> id, title |-> d.title.str, description |-> d.description.str,
     created_at |-> now, updated_at |-> now]

\* preload({id, ...dto}): the loaded row with the given properties laid over it
Merge(row, d) ==
    [f \in DOMAIN row |-> IF f \in DOMAIN d THEN d[f].str ELSE row[f]]

\* remove(entity): the entity comes back with its primary key unset
Removed(e) == [f \in DOMAIN e \ {"id"} |-> e[f]]

\* (mutant) findOne with the where clause lost: the first row of the table
FindFirst(s, id) ==
    IF DOMAIN s = {} THEN NoEntity
    ELSE s[CHOOSE i \in DOMAIN s : \A j \in DOMAIN s : i <= j]

\* findOne({ where: { id } }): the row of that id, or null
FindOne(s, id) == IF id \in DOMAIN s THEN s[id] ELSE NoEntity

\* (mutant) create({ id, ...dto }) in place of preload: an entity for a missing row too
PreloadOrCreate(s, id, d) ==
    IF id \in DOMAIN s THEN Merge(s[id], d) ELSE NewRow(id, d, 0)

\* preload({ id, ...dto }): null when the table has no row of that id
Preload(s, id, d) == IF id \in DOMAIN s THEN Merge(s[id], d) ELSE NoEntity

\* (mutant) save writing the entity as it is held in memory, updated_at included
SavedOverwrite(s, e, now) == e

\* (mutant) save replacing the row: a new created_at along with the new updated_at
SavedReplace(s, e, now) == [e EXCEPT !.created_at = now, !.updated_at = now]

\* what save(entity) writes: nothing when the row already holds the entity's
\* columns, the changed columns and a fresh updated_at when it differs, and the
\* whole entity, under its id, when the table has no row of that id
Saved(s, e, now) ==
    IF e.id \notin DOMAIN s THEN e
    ELSE IF s[e.id].title = e.title /\ s[e.id].description = e.description
    THEN s[e.id]
    ELSE [s[e.id] EXCEPT !.title = e.title, !.description = e.description,
                         !.updated_at = now]

\* what save(entity) returns: the entity, with updated_at read back when a row
\* was updated
SaveResult(s, e, now) ==
    IF e.id \in DOMAIN s /\ Saved(s, e, now) # s[e.id]
    THEN [e EXCEPT !.updated_at = now]
    ELSE e

Event(step, id, body, status, result) ==
    [step |-> step, id |-> id, body |-> body, status |-> status, result |-> result]

----------------------------------------------------------------------------
Init ==
    /\ store = [i \in {} |-> NoEntity]
    /\ seq = 0
    /\ clock = 0
    /\ pc = [c \in Clients |-> "idle"]
    /\ ent = [c \in Clients |-> NoEntity]
    /\ dto = [c \in Clients |-> NoBody]
    /\ served = 0
    /\ issued = {}
    /\ fresh = [i \in {} |-> NoEntity]
    /\ last = Event("init", 0, NoBody, 0, NoEntity)

\* the slot the next request that has to park takes: requests are anonymous, so
\* which idle slot it is does not matter
FreeSlot == IF \E c \in Clients : pc[c] = "idle"
            THEN CHOOSE c \in Clients : pc[c] = "idle"
            ELSE "none"

\* time passes
Tick ==
    /\ clock < MaxClock
    /\ clock' = clock + 1
    /\ last' = Event("tick", 0, NoBody, 0, NoEntity)
    /\ UNCHANGED <<store, seq, pc, ent, dto, served, issued, fresh>>

\* GET /products
getProducts ==
    /\ last' = Event("getProducts", 0, NoBody, 200, {store[i] : i \in DOMAIN store})
    /\ UNCHANGED <<store, seq, clock, pc, ent, dto, served, issued, fresh>>

\* GET /products/:id
getProduct(id) ==
    /\ IF FindOne(store, id) = NoEntity
       THEN last' = Event("getProduct", id, NoBody, 404, NoEntity)
       ELSE last' = Event("getProduct", id, NoBody, 200, FindOne(store, id))
    /\ UNCHANGED <<store, seq, clock, pc, ent, dto, served, issued, fresh>>

\* POST /products
createProduct(body) ==
    /\ IF PipeErrors(DtoErrors(body), body) # {}
       THEN /\ last' = Event("createProduct", 0, body, 400, NoEntity)
            /\ UNCHANGED <<store, seq, served, issued, fresh>>
       ELSE /\ seq < MaxId
            /\ served < MaxRequests
            /\ served' = served + 1
            /\ LET row == NewRow(NextId(store, seq), Whitelist(body), clock)
               IN /\ store' = Put(store, row)
                  /\ seq' = row.id
                  /\ issued' = issued \cup {row.id}
                  /\ fresh' = Put(fresh, row)
                  /\ last' = Event("createProduct", 0, body, 201, row)
    /\ UNCHANGED <<clock, pc, ent, dto>>

\* PUT /products/:id, up to the first await: the pipe, then preload({id, ...dto})
updateProduct_preload(id, body) ==
    /\ IF PipeErrors(UpdateDtoErrors(body), body) # {}
       THEN /\ last' = Event("updateProduct", id, body, 400, NoEntity)
            /\ UNCHANGED <<pc, ent, dto, served>>
       ELSE IF Preload(store, id, Whitelist(body)) = NoEntity
       THEN /\ last' = Event("updateProduct", id, body, 404, NoEntity)
            /\ UNCHANGED <<pc, ent, dto, served>>
       ELSE /\ FreeSlot \in Clients
            /\ served < MaxRequests
            /\ served' = served + 1
            /\ pc' = [pc EXCEPT ![FreeSlot] = "save"]
            /\ ent' = [ent EXCEPT ![FreeSlot] = Preload(store, id, Whitelist(body))]
            /\ dto' = [dto EXCEPT ![FreeSlot] = Whitelist(body)]
            /\ last' = Event("updateProduct.preload", id, body, 0, NoEntity)
    /\ UNCHANGED <<store, seq, clock, issued, fresh>>

\* PUT /products/:id, from the first await on: save(product)
updateProduct_save(c) ==
    /\ pc[c] = "save"
    /\ LET row == Saved(store, ent[c], clock)
       IN /\ store' = Put(store, row)
          /\ fresh' = IF store' = store THEN fresh ELSE Remove(fresh, row.id)
          /\ last' = Event("updateProduct", row.id, dto[c], 200,
                            SaveResult(store, ent[c], clock))
    /\ pc' = [pc EXCEPT ![c] = "idle"]
    /\ ent' = [ent EXCEPT ![c] = NoEntity]
    /\ dto' = [dto EXCEPT ![c] = NoBody]
    /\ UNCHANGED <<seq, clock, served, issued>>

\* DELETE /products/:id, up to the first await: getProduct(id)
deleteProduct_getProduct(id) ==
    /\ IF FindOne(store, id) = NoEntity
       THEN /\ last' = Event("deleteProduct", id, NoBody, 404, NoEntity)
            /\ UNCHANGED <<pc, ent, served>>
       ELSE /\ FreeSlot \in Clients
            /\ served < MaxRequests
            /\ served' = served + 1
            /\ pc' = [pc EXCEPT ![FreeSlot] = "remove"]
            /\ ent' = [ent EXCEPT ![FreeSlot] = FindOne(store, id)]
            /\ last' = Event("deleteProduct.getProduct", id, NoBody, 0, NoEntity)
    /\ UNCHANGED <<store, seq, clock, dto, issued, fresh>>

\* DELETE /products/:id, from the first await on: remove(post)
deleteProduct_remove(c) ==
    /\ pc[c] = "remove"
    /\ store' = Remove(store, ent[c].id)
    /\ fresh' = Remove(fresh, ent[c].id)
    /\ last' = Event("deleteProduct", ent[c].id, NoBody, 200, Removed(ent[c]))
    /\ pc' = [pc EXCEPT ![c] = "idle"]
    /\ ent' = [ent EXCEPT ![c] = NoEntity]
    /\ UNCHANGED <<seq, clock, dto, served, issued>>

Next ==
    \/ Tick
    \/ getProducts
    \/ \E id \in Ids : getProduct(id)
    \/ \E body \in CreateBodies : createProduct(body)
    \/ \E id \in Ids, body \in UpdateBodies : updateProduct_preload(id, body)
    \/ \E c \in Clients : updateProduct_save(c)
    \/ \E id \in Ids : deleteProduct_getProduct(id)
    \/ \E c \in Clients : deleteProduct_remove(c)

Spec == Init /\ [][Next]_vars

----------------------------------------------------------------------------
(* Steps, as the properties below name them *)

\* a step that takes a request in: no parked request completes in it
Arrives == \A c \in Clients : pc[c] = "idle" \/ pc'[c] = pc[c]

\* slot c's parked updateProduct runs its save
Saves(c) == pc[c] = "save" /\ pc'[c] = "idle"

\* the other rows of the table are the same after the step
OthersUnchanged(id) ==
    /\ DOMAIN store' \ {id} = DOMAIN store \ {id}
    /\ \A i \in DOMAIN store \ {id} : store'[i] = store[i]

\* the pipe accepts the body of a PUT
PassesUpdatePipe(body) == PipeErrors(UpdateDtoErrors(body), body) = {}

\* the body supplies a subset of title and description, each within its bounds
SuppliesWithinBounds(body) ==
    /\ DOMAIN body \subseteq {"title", "description"}
    /\ "title" \in DOMAIN body =>
          /\ body.title.type = "string"
          /\ Len(body.title.str) >= 6 /\ Len(body.title.str) <= 32
    /\ "description" \in DOMAIN body =>
          /\ body.description.type = "string"
          /\ Len(body.description.str) >= 32 /\ Len(body.description.str) <= 1024

----------------------------------------------------------------------------
(* C1 *)

\* C1, as claimed: a Get, Update (with any body) or Delete that names an id
\* with no row answers 404 and leaves the table as it was.
C1_Original ==
    [][ ( /\ Arrives
          /\ last'.step \in {"getProduct", "updateProduct", "deleteProduct",
                             "updateProduct.preload", "deleteProduct.getProduct"}
          /\ last'.id \notin DOMAIN store )
        => (last'.status = 404 /\ store' = store) ]_vars

\* C1, amended: a Get, a Delete, or an Update whose body passes the pipe, that
\* names an id with no row answers 404 and leaves the table as it was; an Update
\* whose body fails the pipe answers 400 whatever the id, the table as it was.
C1_NotFound ==
    [][ ( /\ Arrives
          /\ last'.step \in {"getProduct", "updateProduct", "deleteProduct",
                             "updateProduct.preload", "deleteProduct.getProduct"}
          /\ last'.id \notin DOMAIN store )
        => /\ store' = store
           /\ IF last'.step \in {"updateProduct", "updateProduct.preload"}
                 /\ ~PassesUpdatePipe(last'.body)
              THEN last'.status = 400
              ELSE last'.status = 404 ]_vars

\* an Update with a valid body has just been answered 404 for an id with no row,
\* after that id's row was deleted
C1_Witness ==
    /\ last.step = "updateProduct"
    /\ last.status = 404
    /\ PassesUpdatePipe(last.body)
    /\ last.id \in issued \ DOMAIN store

----------------------------------------------------------------------------
(* C2 *)

\* C2, as claimed: an Update of a stored product whose body supplies any subset
\* of title and description, each within its bounds, succeeds, stores exactly
\* the supplied fields over the row, keeps created_at, and does not move
\* updated_at backwards.
C2_Original ==
    [][ ( /\ last'.step = "updateProduct"
          /\ last'.id \in DOMAIN store
          /\ SuppliesWithinBounds(last'.body) )
        => /\ last'.status = 200
           /\ last'.id \in DOMAIN store'
           /\ \A f \in {"title", "description"} :
                 store'[last'.id][f] = IF f \in DOMAIN last'.body
                                       THEN last'.body[f].str
                                       ELSE store[last'.id][f]
           /\ store'[last'.id].created_at = store[last'.id].created_at
           /\ store'[last'.id].updated_at >= store[last'.id].updated_at ]_vars

----------------------------------------------------------------------------
(* C3 *)

\* C3: a successful Create returns a product with the title and description of
\* its input and an id that no earlier Create returned, deleted products included.
C3_CreateFreshId ==
    [][ (last'.step = "createProduct" /\ last'.status = 201)
        => /\ last'.result.title = last'.body.title.str
           /\ last'.result.description = last'.body.description.str
           /\ last'.result.id \notin issued
           /\ last'.result.id \in DOMAIN store'
           /\ store'[last'.result.id] = last'.result ]_vars

\* a Create has just succeeded after an earlier product was deleted
C3_Witness ==
    /\ last.step = "createProduct"
    /\ last.status = 201
    /\ \E i \in issued : i # last.result.id /\ i \notin DOMAIN store

----------------------------------------------------------------------------
(* C4 *)

\* C4: a Create whose title is a string shorter than 6 or longer than 32
\* characters answers 400, and touches neither the table nor its id sequence.
C4_TitleLengthRejected ==
    [][ ( /\ last'.step = "createProduct"
          /\ "title" \in DOMAIN last'.body
          /\ last'.body.title.type = "string"
          /\ (Len(last'.body.title.str) < 6 \/ Len(last'.body.title.str) > 32) )
        => (last'.status = 400 /\ store' = store /\ seq' = seq) ]_vars

\* a Create with a title of 5 characters has just been answered 400 while the
\* table holds a row
C4_Witness ==
    /\ last.step = "createProduct"
    /\ last.status = 400
    /\ "title" \in DOMAIN last.body
    /\ last.body.title.type = "string"
    /\ Len(last.body.title.str) = 5
    /\ DOMAIN store # {}

----------------------------------------------------------------------------
(* C5 *)

\* C5: a Create or Update whose body holds a property other than title and
\* description answers 400, parks nothing in the service, and leaves the table
\* and its id sequence as they were.
C5_UnknownFieldRejected ==
    [][ ( /\ last'.step \in {"createProduct", "updateProduct", "updateProduct.preload"}
          /\ Arrives
          /\ ~(DOMAIN last'.body \subseteq {"title", "description"}) )
        => /\ last'.status = 400
           /\ UNCHANGED <<store, seq, pc, ent, dto>> ]_vars

\* an Update of a stored product carrying created_at has just been answered 400
C5_Witness ==
    /\ last.step = "updateProduct"
    /\ last.status = 400
    /\ "created_at" \in DOMAIN last.body
    /\ last.id \in DOMAIN store

----------------------------------------------------------------------------
(* C6 *)

\* C6, as claimed: a successful Delete of a stored product returns the row as
\* last stored, id included, and the id has no row afterwards.
C6_Original ==
    [][ ( /\ last'.step = "deleteProduct"
          /\ last'.status = 200
          /\ last'.id \in DOMAIN store )
        => /\ last'.result = store[last'.id]
           /\ last'.id \notin DOMAIN store' ]_vars

----------------------------------------------------------------------------
(* C7 *)

\* C7, as claimed: load, merge and persist are one atomic step -- when an Update
\* persists, the row is still the one it loaded (so the entity it holds is the
\* merge of its body onto the row as it is now), and in particular still exists.
C7_Original ==
    [][ \A c \in Clients :
          Saves(c) => /\ ent[c].id \in DOMAIN store
                      /\ Merge(store[ent[c].id], dto[c]) = ent[c] ]_vars

\* C7, amended: load+merge and persist are two steps, and other requests' writes
\* to the id can fall between them.  When none did, the persist has the effect
\* of the atomic update: the row becomes the merge of the body onto it, with
\* updated_at set to now if that changed the row, and no other row changes.
\* When the row was deleted in between, the persist inserts the loaded-and-merged
\* entity again under the same id.
C7_TwoStepUpdate ==
    [][ \A c \in Clients :
          Saves(c) =>
            LET id == ent[c].id IN
            /\ OthersUnchanged(id)
            /\ id \in DOMAIN store'
            /\ IF id \notin DOMAIN store
               THEN store'[id] = ent[c]
               ELSE Merge(store[id], dto[c]) = ent[c] =>
                      store'[id] = IF Merge(store[id], dto[c]) = store[id]
                                   THEN store[id]
                                   ELSE [Merge(store[id], dto[c])
                                            EXCEPT !.updated_at = clock] ]_vars

\* an Update has just persisted a change, later than the row's creation, in a
\* run of two requests only (the Create and this Update)
C7_Witness ==
    /\ last.step = "updateProduct"
    /\ last.status = 200
    /\ served = 2
    /\ last.id \in DOMAIN store
    /\ store[last.id].title = last.body.title.str
    /\ store[last.id].updated_at > store[last.id].created_at

----------------------------------------------------------------------------
(* C8 *)

\* C8: a Get of an id that nothing has written since its Create answers 200 with
\* the record that Create returned, equal in every field.
C8_CreateGetRoundTrip ==
    (last.step = "getProduct" /\ last.id \in DOMAIN fresh)
        => (last.status = 200 /\ last.result = fresh[last.id])

\* a Get has just returned the second of two products, untouched since its
\* Create, at a later time than it was created
C8_Witness ==
    /\ last.step = "getProduct"
    /\ last.status = 200
    /\ last.id \in DOMAIN fresh
    /\ last.id = 2
    /\ clock > fresh[last.id].created_at

----------------------------------------------------------------------------
(* C9 *)

\* C9: every stored product has a title of 6 to 32 characters, a description of
\* 32 to 1024 characters, and updated_at >= created_at.
C9_StoredRowsValid ==
    \A i \in DOMAIN store :
        /\ Len(store[i].title) >= 6 /\ Len(store[i].title) <= 32
        /\ Len(store[i].description) >= 32 /\ Len(store[i].description) <= 1024
        /\ store[i].updated_at >= store[i].created_at

\* a row updated after its creation, to the longest description, after requests
\* were rejected and accepted
C9_Witness ==
    /\ last.step = "updateProduct"
    /\ last.status = 200
    /\ last.id \in DOMAIN store
    /\ Len(store[last.id].description) = 1024
    /\ store[last.id].updated_at > store[last.id].created_at

----------------------------------------------------------------------------
(* C10 *)

\* C10, as claimed: a successful Update changes only the row of its id, which
\* keeps its id and created_at; the table holds the same ids after it as before.
C10_Original ==
    [][ \A c \in Clients :
          Saves(c) => /\ DOMAIN store' = DOMAIN store
                      /\ OthersUnchanged(ent[c].id)
                      /\ store'[ent[c].id].id = ent[c].id
                      /\ store'[ent[c].id].created_at
                            = store[ent[c].id].created_at ]_vars

\* C10, amended: a successful Update changes only the row of its id and no other
\* row; if that row still exists when the Update persists, it keeps its id and
\* created_at and the table holds the same ids as before; if a Delete removed it
\* after the Update loaded it, the persist inserts it again under that id, and
\* the table holds one row more.
C10_UpdateFrame ==
    [][ \A c \in Clients :
          Saves(c) =>
            LET id == ent[c].id IN
            /\ OthersUnchanged(id)
            /\ store'[id].id = id
            /\ IF id \in DOMAIN store
               THEN /\ DOMAIN store' = DOMAIN store
                    /\ store'[id].created_at = store[id].created_at
               ELSE DOMAIN store' = DOMAIN store \cup {id} ]_vars

\* an Update has just changed one of two stored rows
C10_Witness ==
    /\ last.step = "updateProduct"
    /\ last.status = 200
    /\ Cardinality(DOMAIN store) = 2
    /\ last.id \in DOMAIN store
    /\ store[last.id].updated_at > store[last.id].created_at

====
